---- MODULE Spec2Model ----
(***************************************************************************)
(* Model of the caption pipeline of yorkerbot: the center-balanced line    *)
(* breaker (calcAvgLineWidth / createBalancedLines) and the four copies of *)
(* the caption layout routine, the calls of caption() a process makes one  *)
(* after the other, and the fetching of the comic with its retries.        *)
(*                                                                         *)
(* Variants of the caption routine:                                        *)
(*   "canvasSquare"  src/unnamed/part_000, lines 104-188 (node-canvas,     *)
(*                   with the near-square adjustment)                      *)
(*   "gd"            src/unnamed/part_000, lines 333-418 (node-gd)         *)
(*   "canvas"        src/unnamed/part_001, lines 104-182 (node-canvas)     *)
(*   "bot"           src/bot.js, lines 176-260 (captionImage, node-gd)     *)
(*                                                                         *)
(* Numbers.  Every length is an integer number of units of 1/Sub pixel, so *)
(* that the fractional pixel values node-canvas measures, Math.ceil and    *)
(* the |0 truncation can be told apart.  Quotients (the average line width *)
(* and the scale factor) are kept as numerator and denominator.  The       *)
(* cumulative average line width is a sum of doubles: its exact value is   *)
(* kept together with the rounding error the division and the additions    *)
(* leave on it (section "doubles"), which decides the comparison of pass 2 *)
(* when the exact values are equal.                                        *)
(*                                                                         *)
(* Text.  A string is a sequence of one-character strings over Alphabet.   *)
(* The text measurer is the external capability; it is modelled as a font  *)
(* with fixed glyph widths, so that measuring is deterministic and the     *)
(* width of a string is the sum of the widths of its characters.           *)
(***************************************************************************)
EXTENDS Integers, Sequences, FiniteSets, TLC

(* ------------------------------ bounds -------------------------------- *)

\* longest caption, in characters, of the line-breaking inputs
MaxCaptionLen == 5
\* widest space glyph, in pixels
MaxSpaceWidth == 2
\* widest text column (maxTextWidth), in pixels, of the line-breaking inputs
MaxTextBudget == 5

(* ------------------------------ numbers ------------------------------- *)

\* units per pixel
Sub == 2

Px(n) == n * Sub

Max(a, b) == IF a >= b THEN a ELSE b

\* Math.ceil: the least whole pixel value >= x
Ceil(x) == (0 - ((0 - x) \div Sub)) * Sub

\* x|0: x truncated toward zero to a whole pixel value
ToInt(x) == IF x >= 0 THEN (x \div Sub) * Sub ELSE (0 - ((0 - x) \div Sub)) * Sub

(* ------------------------------- text --------------------------------- *)

Alphabet == {" ", "i", "m"}

\* all strings of at most n characters
Strings(n) == UNION {[1..k -> Alphabet] : k \in 0..n}

\* caption.split(/\s+/): the pieces between maximal runs of whitespace; a
\* leading or trailing run leaves an empty piece, and "" splits to [""].
RECURSIVE SplitFrom(_, _, _, _, _)
SplitFrom(s, k, acc, cur, prevSpace) ==
  IF k > Len(s) THEN Append(acc, cur)
  ELSE IF s[k] = " "
       THEN IF prevSpace THEN SplitFrom(s, k + 1, acc, cur, TRUE)
            ELSE SplitFrom(s, k + 1, Append(acc, cur), << >>, TRUE)
       ELSE SplitFrom(s, k + 1, acc, Append(cur, s[k]), FALSE)

Split(s) == SplitFrom(s, 1, << >>, << >>, FALSE)

\* the concatenation of a sequence of sequences
RECURSIVE Flatten(_)
Flatten(ss) == IF ss = << >> THEN << >> ELSE ss[1] \o Flatten(Tail(ss))

\* the words of a line glued without the separator
JoinNoSeparator(ws) == Flatten(ws)

\* lineWords.join(" ")
RECURSIVE Join(_)
Join(ws) ==
  IF ws = << >> THEN << >>
  ELSE IF Len(ws) = 1 THEN ws[1]
  ELSE ws[1] \o <<" ">> \o Join(Tail(ws))

(* ----------------------------- measuring ------------------------------ *)

\* width of one glyph; the space glyph is as wide as the font says, and "w"
\* stands for a whole word 40 pixels wide
GlyphWidth(c, sw) ==
  IF c = " " THEN sw
  ELSE IF c = "i" THEN Px(1)
  ELSE IF c = "w" THEN Px(40)
  ELSE Px(2)

\* measureText(text).width, stringFTBBox(...)[2] - [0]
RECURSIVE TextWidth(_, _)
TextWidth(text, sw) ==
  IF text = << >> THEN 0 ELSE GlyphWidth(text[1], sw) + TextWidth(Tail(text), sw)

(* --------------------------- configuration ---------------------------- *)

Variants == {"canvasSquare", "gd", "canvas", "bot"}

UsesCanvas(v) == v \in {"canvasSquare", "canvas"}

\* CAPTION_DEFAULT_OPTS of each copy; for "bot" the constants of captionImage
\* (captionMarginHoriz, captionMarginVert = outerPadding + 4).  fontSize is
\* the point size for node-gd (14) and, for node-canvas, the em height of
\* the font the size string selects ("18pt" is 24 pixels).
CAPTION_DEFAULT_OPTS(v) ==
  IF v = "canvasSquare" THEN
    [captionMarginSides |-> Px(36), captionMarginTop |-> Px(24), fontSize |-> Px(24),
     lineSpacing |-> Px(2), outerPadding |-> Px(16), resizeComicWidth |-> Px(600)]
  ELSE IF v = "gd" THEN
    [captionMarginSides |-> Px(50), captionMarginTop |-> Px(25), fontSize |-> 14,
     lineSpacing |-> Px(2), outerPadding |-> Px(20), resizeComicWidth |-> Px(600)]
  ELSE IF v = "canvas" THEN
    [captionMarginSides |-> Px(40), captionMarginTop |-> Px(25), fontSize |-> Px(24),
     lineSpacing |-> Px(2), outerPadding |-> Px(20), resizeComicWidth |-> Px(600)]
  ELSE
    [captionMarginSides |-> Px(50), captionMarginTop |-> Px(20) + Px(4), fontSize |-> 14,
     lineSpacing |-> Px(2), outerPadding |-> Px(20), resizeComicWidth |-> Px(600)]

\* const maxTextWidth = comicWidth - (captionMarginSides * 2)   (canvasSquare)
\* const maxTextWidth = imageWidth - (captionMarginSides * 2)   (the others)
MaxTextWidthOf(v, o, img) ==
  IF v = "canvasSquare" THEN o.resizeComicWidth - (o.captionMarginSides * 2)
  ELSE img.width - (o.captionMarginSides * 2)

(* ------------------------------ pass 1 -------------------------------- *)

\* The loop of calcAvgLineWidth from word k on.
RECURSIVE CalcFrom(_, _, _, _, _, _, _)
CalcFrom(ws, k, sw, mtw, lw, total, needed) ==
  IF k > Len(ws) THEN [linesNeeded |-> needed, totalTextWidth |-> total]
  ELSE LET wordWidth == ws[k].width
           fits == lw + sw + wordWidth <= mtw
           addWidth == IF lw # 0 /\ fits THEN wordWidth + sw ELSE wordWidth
           lw0 == IF lw # 0 /\ ~fits THEN 0 ELSE lw
           needed1 == IF lw # 0 /\ ~fits THEN needed + 1 ELSE needed
       IN CalcFrom(ws, k + 1, sw, mtw, lw0 + addWidth, total + addWidth, needed1)

\* calcAvgLineWidth(words, spaceWidth, maxTextWidth); the average
\* totalTextWidth / linesNeeded is kept as the fraction num / den.
calcAvgLineWidth(ws, sw, mtw) ==
  LET r == CalcFrom(ws, 1, sw, mtw, 0, 0, 1)
  IN [linesNeeded |-> r.linesNeeded,
      avgLineWidth |-> [num |-> r.totalTextWidth, den |-> r.linesNeeded]]

(* ------------------------------ doubles ------------------------------- *)

\* A double holds a mantissa M of MantissaBits + 1 bits.  avgLineWidth is
\* the quotient t / l of two whole numbers, rounded to M / 2^p, and
\* cumAvgLineWidth after k - 1 additions is (k * M + eps) / 2^p, where eps
\* gathers what the additions rounded away.  M itself does not fit the
\* integers of the checker; only its residues and the sign of
\* (k * M + eps) / 2^p - k * t / l are computed.

\* the fraction bits of a double
MantissaBits == 52

\* 2^p mod m
RECURSIVE Pow2Mod(_, _)
Pow2Mod(p, m) == IF p = 0 THEN 1 % m ELSE (2 * Pow2Mod(p - 1, m)) % m

\* a >= b * 2^e and a <= b * 2^e, for an exponent e of either sign
GePow2(a, b, e) == IF e >= 0 THEN a >= b * (2 ^ e) ELSE a * (2 ^ (0 - e)) >= b
LePow2(a, b, e) == IF e >= 0 THEN a <= b * (2 ^ e) ELSE a * (2 ^ (0 - e)) <= b

\* the binary exponent of t / l, for t, l > 0: the j with
\* 2^j <= t / l < 2^(j + 1)
RECURSIVE ExponentFrom(_, _, _)
ExponentFrom(t, l, j) ==
  IF GePow2(t, l, j + 1) THEN ExponentFrom(t, l, j + 1)
  ELSE IF ~GePow2(t, l, j) THEN ExponentFrom(t, l, j - 1)
  ELSE j

Exponent(t, l) == ExponentFrom(t, l, 0)

\* the p that scales the mantissa of t / l to a whole number
Scale(t, l) == MantissaBits - Exponent(t, l)

\* (t * 2^p) mod m
ScaledMod(t, p, m) == ((t % m) * Pow2Mod(p, m)) % m

\* t / l rounded to the nearest double, ties to the even mantissa:
\* l * M - t * 2^p, the error of the quotient in units of 2^-p / l
QuotientError(t, l) ==
  LET p == Scale(t, l)
      r == ScaledMod(t, p, l)
      floorIsOdd == ((ScaledMod(t, p, 2 * l) - r) \div l) % 2 = 1
  IN IF 2 * r < l THEN 0 - r
     ELSE IF 2 * r > l THEN l - r
     ELSE IF floorIsOdd THEN l - r ELSE 0 - r

\* M mod m, for the mantissa M of t / l
MantissaMod(t, l, m) ==
  ((ScaledMod(t, Scale(t, l), l * m) + QuotientError(t, l) + (l * m)) % (l * m)) \div l

\* the sign of (k * M + eps) / 2^p - k * t / l
ErrorSign(t, l, k, eps) ==
  LET e == (k * QuotientError(t, l)) + (l * eps)
  IN IF e > 0 THEN 1 ELSE IF e < 0 THEN 0 - 1 ELSE 0

\* the bits the sum k * M + eps has beyond the mantissa: the least g with
\* k * M + eps < 2^(MantissaBits + 1 + g)
RECURSIVE GridBitsFrom(_, _, _, _, _)
GridBitsFrom(t, l, k, eps, g) ==
  LET e == Exponent(t, l) + 1 + g
      reaches == IF GePow2(k * t, l, e) /\ LePow2(k * t, l, e)
                 THEN ErrorSign(t, l, k, eps) >= 0
                 ELSE GePow2(k * t, l, e)
  IN IF reaches THEN GridBitsFrom(t, l, k, eps, g + 1) ELSE g

\* what the k-th addition cumAvgLineWidth += avgLineWidth rounds away or
\* adds: the sum k * M + eps is rounded to the nearest multiple of the
\* grid 2^g, ties to the even multiple
SumAdjust(t, l, k, eps) ==
  LET grid == 2 ^ GridBitsFrom(t, l, k, eps, 0)
      half == grid \div 2
      low == ((k * MantissaMod(t, l, 2 * grid)) + eps + (2 * grid * k)) % (2 * grid)
      rem == low % grid
  IN IF grid = 1 THEN 0
     ELSE IF rem < half THEN 0 - rem
     ELSE IF rem > half THEN grid - rem
     ELSE IF low < grid THEN 0 - rem ELSE grid - rem

\* the whole pixels of a width (every width measured is a whole number of
\* pixels)
WholePx(x) == x \div Sub

\* cumAvgLineWidth += avgLineWidth
AddAvg(cum, avg) ==
  LET t == WholePx(avg.num)
      k == cum.k + 1
  IN [num |-> cum.num + avg.num, den |-> cum.den, k |-> k,
      eps |-> IF t = 0 THEN 0 ELSE cum.eps + SumAdjust(t, avg.den, k, cum.eps)]

\* let cumAvgLineWidth = avgLineWidth
FirstAvg(avg) == [num |-> avg.num, den |-> avg.den, k |-> 1, eps |-> 0]

\* the double f is below the exact value of the sum it stands for
BelowExact(f) ==
  LET t == WholePx(f.num) \div f.k
  IN t # 0 /\ ErrorSign(t, f.den, f.k, f.eps) < 0

(* ------------------------------- state -------------------------------- *)

VARIABLES
  pc,               \* position in caption / _caption / captionImage
  variant,          \* which copy of the caption routine runs
  caption,          \* the caption argument
  opts,             \* the merged options
  image,            \* [width, height] of the base image
  spaceWidth,       \* width of " " in the font
  maxTextWidth,
  words,            \* sequence of [text, width]
  linesNeeded,
  avgLineWidth,     \* [num, den]
  wordIdx,          \* index of the word the loop of createBalancedLines is at
  lines,            \* createBalancedLines: the line texts pushed so far
  lineWords,
  lineWidth,
  totalTextWidth,
  cumAvgLineWidth,  \* [num, den, k, eps]: the exact sum and its rounding
  lastLine,
  softBreak,        \* history: the last line was closed by the soft rule alone
  comicHeight,
  measured,         \* the lines as [text, width, height] records
  canvasWidth,      \* canvas.width / finalImageWidth
  canvasHeight,     \* canvas.height / finalImageHeight
  imageRect,        \* where the base image is drawn: [x2, y, w, h]
  linePositions,    \* where each line is drawn: [text, x2, y, width, height]
  status,           \* "running", then "returned" once the routine returns
  textY,            \* the global the undeclared assignment textY = ... makes
  hasRegistered,    \* the flag in the closure of registerFonts
  registerCount,    \* history: the calls of registerFont made so far
  calls,            \* history: the calls of the caption routine started
  fetchVersion,     \* which fetchRandomComicImage runs: "legacy" or "YorkerBot"
  fetchPc,          \* "idle", "attempt", "resolved" or "rejected"
  count,            \* the loop variable of YorkerBot's fetchRandomComicImage
  attempts,         \* history: the attempts started
  metaReply,        \* what the comic endpoint answered to the latest attempt
  imageReply,       \* what the image URL answered to the latest attempt
  attemptError,     \* history: how the latest attempt failed, or "none"
  fetchError,       \* the error the caller gets, or "none"
  fetchResult       \* the value the caller gets, or "none"

balancerVars == <<wordIdx, lines, lineWords, lineWidth, totalTextWidth,
                  cumAvgLineWidth, lastLine, softBreak>>
inputVars == <<variant, caption, opts, image, spaceWidth>>
layoutVars == <<comicHeight, measured, canvasWidth, canvasHeight, imageRect,
                linePositions, status>>
processVars == <<textY, hasRegistered, registerCount, calls>>
captionVars == <<pc, inputVars, maxTextWidth, words, linesNeeded, avgLineWidth,
                 balancerVars, layoutVars, processVars>>
fetchVars == <<fetchVersion, fetchPc, count, attempts, metaReply, imageReply,
               attemptError, fetchError, fetchResult>>
vars == <<captionVars, fetchVars>>

SpaceWidths == {Px(k) : k \in 1..MaxSpaceWidth}

\* options small enough for a five-character caption to need several lines
TinyOpts(v) ==
  [captionMarginSides |-> Px(1), captionMarginTop |-> Px(1),
   fontSize |-> IF UsesCanvas(v) THEN Px(2) ELSE 2,
   lineSpacing |-> Px(1), outerPadding |-> Px(1), resizeComicWidth |-> Px(4)]

\* inputs that exercise the line breaker: every caption up to MaxCaptionLen,
\* and a text column from -2 to MaxTextBudget pixels wide
BalanceInputs(v) ==
  {[caption |-> c, spaceWidth |-> sw,
    opts |-> IF v = "bot" THEN CAPTION_DEFAULT_OPTS(v)
             ELSE IF v = "canvasSquare"
                  THEN [TinyOpts(v) EXCEPT !.resizeComicWidth = Px(t) + 2 * Px(1)]
                  ELSE TinyOpts(v),
    image |-> [width |-> IF v = "bot" THEN Px(t) + 2 * Px(50)
                         ELSE IF v = "canvasSquare" THEN Px(4)
                         ELSE Px(t) + 2 * Px(1),
               height |-> Px(3)]] :
     c \in Strings(MaxCaptionLen), sw \in SpaceWidths, t \in (0 - 2)..MaxTextBudget}

\* inputs that exercise the layout: a few captions, and the options and the
\* image varied around the defaults
LayoutCaptions ==
  {<< >>, <<"i">>, <<"m", " ", "i">>, <<"i", " ", "i", " ", "m">>}
MarginTops == {0, Px(1) + 1, Px(25)}
LineSpacings == {0, 1, Px(2)}
Paddings == {0, Px(20)}
FontSizes(v) == IF UsesCanvas(v) THEN {Px(1), Px(1) + 1, Px(24)} ELSE {1, 2, 14}
ComicWidths == {Px(0 - 1), 0, Px(5), Px(600)}
Images ==
  {[width |-> 0, height |-> 0], [width |-> Px(5), height |-> Px(3)],
   [width |-> Px(600), height |-> Px(600)], [width |-> Px(600), height |-> Px(1100)],
   [width |-> Px(1200), height |-> Px(800)]}

LayoutInputs(v) ==
  IF v = "bot"
  THEN {[caption |-> c, spaceWidth |-> Px(1), opts |-> CAPTION_DEFAULT_OPTS(v),
         image |-> img] :
          c \in LayoutCaptions, img \in Images \cup {[width |-> Px(103), height |-> Px(60)]}}
  ELSE {[caption |-> c, spaceWidth |-> Px(1),
         opts |-> [captionMarginSides |-> Px(1), captionMarginTop |-> mt,
                   fontSize |-> fs, lineSpacing |-> ls, outerPadding |-> pad,
                   resizeComicWidth |-> cw],
         image |-> img] :
          c \in LayoutCaptions, mt \in MarginTops, fs \in FontSizes(v),
          ls \in LineSpacings, pad \in Paddings, cw \in ComicWidths, img \in Images}

\* an input with the default options and a text column mtw wide
ColumnInput(v, c, sw, mtw) ==
  LET o == CAPTION_DEFAULT_OPTS(v)
  IN [caption |-> c, spaceWidth |-> sw,
      opts |-> IF v = "canvasSquare"
               THEN [o EXCEPT !.resizeComicWidth = mtw + (2 * o.captionMarginSides)]
               ELSE o,
      image |-> [width |-> IF v = "canvasSquare" THEN Px(600)
                           ELSE mtw + (2 * o.captionMarginSides),
                 height |-> Px(400)]]

\* six words 40 pixels wide each
SixWords == <<"w", " ", "w", " ", "w", " ", "w", " ", "w", " ", "w">>

\* seven words 1, 2, 2, 2, 2, 1, 1 pixels wide: six lines of 13 pixels in
\* all, an average no double holds
SevenWords == <<"i", " ", "m", " ", "m", " ", "m", " ", "m", " ", "i", " ", "i">>

\* single inputs: a 1200 x 800 image with the default options and one line
\* 20 pixels high; six words in a column of 150 pixels; seven words in a
\* column of 4 pixels
ExampleInputs(v) ==
  {[caption |-> <<"i">>, spaceWidth |-> Px(1),
    opts |-> IF UsesCanvas(v) THEN [CAPTION_DEFAULT_OPTS(v) EXCEPT !.fontSize = Px(20)]
             ELSE CAPTION_DEFAULT_OPTS(v),
    image |-> [width |-> Px(1200), height |-> Px(800)]],
   ColumnInput(v, SixWords, Px(10), Px(150)),
   ColumnInput(v, SevenWords, Px(2), Px(4))}

Inputs(v) == BalanceInputs(v) \cup LayoutInputs(v) \cup ExampleInputs(v)

\* a global never assigned
Undefined == [defined |-> FALSE, value |-> 0]

\* the process after the module is loaded, at its first call of the
\* caption routine with one of the inputs
InitWith(inputs) ==
  /\ pc = "entry"
  /\ \E inp \in inputs :
       /\ caption = inp.caption
       /\ spaceWidth = inp.spaceWidth
       /\ opts = inp.opts
       /\ image = inp.image
  /\ textY = Undefined
  /\ hasRegistered = FALSE
  /\ registerCount = 0
  /\ calls = 1
  /\ maxTextWidth = 0
  /\ words = << >>
  /\ linesNeeded = 0
  /\ avgLineWidth = [num |-> 0, den |-> 1]
  /\ wordIdx = 0
  /\ lines = << >>
  /\ lineWords = << >>
  /\ lineWidth = 0
  /\ totalTextWidth = 0
  /\ cumAvgLineWidth = [num |-> 0, den |-> 1, k |-> 1, eps |-> 0]
  /\ lastLine = FALSE
  /\ softBreak = FALSE
  /\ comicHeight = 0
  /\ measured = << >>
  /\ canvasWidth = 0
  /\ canvasHeight = 0
  /\ imageRect = [x2 |-> 0, y |-> 0, w |-> 0, h |-> 0]
  /\ linePositions = << >>
  /\ status = "running"

\* fetchRandomComicImage not called
FetchIdle(version) ==
  /\ fetchVersion = version
  /\ fetchPc = "idle"
  /\ count = 0
  /\ attempts = 0
  /\ metaReply = "none"
  /\ imageReply = "none"
  /\ attemptError = "none"
  /\ fetchError = "none"
  /\ fetchResult = "none"

Init ==
  /\ variant \in Variants
  /\ InitWith(Inputs(variant))
  /\ FetchIdle("YorkerBot")

(* ------------------------------ actions ------------------------------- *)

\* a tokenizer that drops the empty pieces split leaves
NonEmptyPiece(piece) == piece # << >>
TokenizeNonEmpty(c, sw) ==
  LET pieces == SelectSeq(Split(c), NonEmptyPiece)
  IN [k \in 1..Len(pieces) |-> [text |-> pieces[k], width |-> TextWidth(pieces[k], sw)]]

\* const words = caption.split(/\s+/).map(word => ({text, width}))
Tokenize(c, sw) ==
  LET pieces == Split(c)
  IN [k \in 1..Len(pieces) |-> [text |-> pieces[k], width |-> TextWidth(pieces[k], sw)]]

\* registerFont called whether or not the font is registered
registerFontsEveryCall(reg) ==
  [hasRegistered |-> TRUE, registerCount |-> reg.registerCount + 1]

\* registerFonts(): if (!hasRegistered) { registerFont(...); hasRegistered = true }
registerFonts(reg) ==
  IF ~reg.hasRegistered
  THEN [hasRegistered |-> TRUE, registerCount |-> reg.registerCount + 1]
  ELSE reg

\* caption(imageData, caption, opts) up to the call of _caption: the
\* node-canvas copies register the font, all copies decode the image
\* (captionImage of the bot is handed the decoded image)
Enter ==
  /\ pc = "entry"
  /\ LET reg == [hasRegistered |-> hasRegistered, registerCount |-> registerCount]
         after == IF UsesCanvas(variant) THEN registerFonts(reg) ELSE reg
     IN /\ hasRegistered' = after.hasRegistered
        /\ registerCount' = after.registerCount
  /\ pc' = "start"
  /\ UNCHANGED <<inputVars, maxTextWidth, words, linesNeeded, avgLineWidth,
                 balancerVars, layoutVars, textY, calls, fetchVars>>

\* _caption up to and including the call of calcAvgLineWidth; the locals of
\* createBalancedLines are initialised for its loop.
Measure ==
  /\ pc = "start"
  /\ LET mtw == MaxTextWidthOf(variant, opts, image)
         ws == Tokenize(caption, spaceWidth)
         r == calcAvgLineWidth(ws, spaceWidth, mtw)
     IN /\ maxTextWidth' = mtw
        /\ words' = ws
        /\ linesNeeded' = r.linesNeeded
        /\ avgLineWidth' = r.avgLineWidth
        /\ cumAvgLineWidth' = FirstAvg(r.avgLineWidth)
        /\ lastLine' = (r.linesNeeded = 1)
  /\ wordIdx' = 1
  /\ lines' = << >>
  /\ lineWords' = << >>
  /\ lineWidth' = 0
  /\ totalTextWidth' = 0
  /\ softBreak' = FALSE
  /\ pc' = "balancing"
  /\ UNCHANGED <<inputVars, layoutVars, processVars, fetchVars>>

\* x >= cumAvgLineWidth
ExceedsOrEqual(x, f) == x * f.den >= f.num

\* x > cumAvgLineWidth, for a whole number of pixels x and the double f:
\* the exact values decide unless they are equal, and then the rounding
\* of f does
Exceeds(x, f) ==
  IF x * f.den # f.num THEN x * f.den > f.num ELSE BelowExact(f)

\* the hard rule closing a line that the word would fill exactly
HardBreakInclusive(lw, wordAndSpaceWidth, mtw) == lw + wordAndSpaceWidth >= mtw

\* the hard rule applied only to a text column of positive width
HardBreakPositiveOnly(lw, wordAndSpaceWidth, mtw) ==
  mtw > 0 /\ lw + wordAndSpaceWidth > mtw

\* the hard rule: the word does not fit on the current line
HardBreak(lw, wordAndSpaceWidth, mtw) == lw + wordAndSpaceWidth > mtw

\* the soft rule: the word passes the cumulative average line width
SoftBreak(last, total, wordAndSpaceWidth, cum) ==
  ~last /\ Exceeds(total + wordAndSpaceWidth, cum)

\* lastLine = lines.length === linesNeeded
LastLineAfterClose(closed, needed) == closed = needed

\* one iteration of the loop of createBalancedLines
BalanceStep ==
  /\ pc = "balancing"
  /\ wordIdx <= Len(words)
  /\ LET word == words[wordIdx]
         wordWidth == word.width
         wordAndSpaceWidth == wordWidth + spaceWidth
         hard == HardBreak(lineWidth, wordAndSpaceWidth, maxTextWidth)
         soft == SoftBreak(lastLine, totalTextWidth, wordAndSpaceWidth, cumAvgLineWidth)
         close == lineWidth # 0 /\ (hard \/ soft)
         addWidth == IF lineWidth # 0 /\ ~close THEN wordAndSpaceWidth ELSE wordWidth
     IN /\ IF close
           THEN /\ lines' = Append(lines, Join(lineWords))
                /\ lineWords' = <<word.text>>
                /\ lineWidth' = 0 + addWidth
                /\ lastLine' = LastLineAfterClose(Len(lines) + 1, linesNeeded)
                /\ cumAvgLineWidth' = AddAvg(cumAvgLineWidth, avgLineWidth)
                /\ softBreak' = ~hard
           ELSE /\ lineWords' = Append(lineWords, word.text)
                /\ lineWidth' = lineWidth + addWidth
                /\ UNCHANGED <<lines, lastLine, cumAvgLineWidth, softBreak>>
        /\ totalTextWidth' = totalTextWidth + addWidth
  /\ wordIdx' = wordIdx + 1
  /\ UNCHANGED <<pc, inputVars, maxTextWidth, words, linesNeeded, avgLineWidth,
                 layoutVars, processVars, fetchVars>>

\* the return without the push of the words left over
BalanceFlushWithoutLast ==
  /\ pc = "balancing"
  /\ wordIdx > Len(words)
  /\ pc' = "balanced"
  /\ UNCHANGED <<inputVars, maxTextWidth, words, linesNeeded, avgLineWidth,
                 balancerVars, layoutVars, processVars, fetchVars>>

\* after the loop: if (lineWords.length) lines.push(lineWords.join(" "))
BalanceFlush ==
  /\ pc = "balancing"
  /\ wordIdx > Len(words)
  /\ lines' = IF Len(lineWords) # 0 THEN Append(lines, Join(lineWords)) ELSE lines
  /\ pc' = "balanced"
  /\ UNCHANGED <<inputVars, maxTextWidth, words, linesNeeded, avgLineWidth,
                 wordIdx, lineWords, lineWidth, totalTextWidth, cumAvgLineWidth,
                 lastLine, softBreak, layoutVars, processVars, fetchVars>>

(* ------------------------------- layout ------------------------------- *)

\* a / b truncated toward zero, for b > 0
TruncDiv(a, b) == IF a >= 0 THEN a \div b ELSE 0 - ((0 - a) \div b)

\* the image kept at its own height
ComicHeightUnscaled(comicWidth, img) == img.height

\* const scaleFactor = comicWidth / imageWidth;
\* const comicHeight = (scaleFactor * imageHeight)|0;
\* A zero imageWidth makes the factor Infinity or NaN, which |0 turns to 0.
ComicHeight(comicWidth, img) ==
  IF img.width = 0 THEN 0
  ELSE Px(TruncDiv(comicWidth * img.height, img.width * Sub))

\* const minLineHeight = (fontSize * 1.4)|0;
MinLineHeight(fontSize) == Px(TruncDiv(fontSize * 14, 10))

HasGlyph(text) == \E k \in 1..Len(text) : text[k] # " "
HasTallGlyph(text) == \E k \in 1..Len(text) : text[k] = "i"

\* calcTextWidthHeight(image, text)[1]: the height of the bounding box of
\* the rendered text, which follows the glyphs the text holds
BBoxHeight(text, fontSize) ==
  IF ~HasGlyph(text) THEN 0
  ELSE IF HasTallGlyph(text) THEN Px(fontSize + ((fontSize + 4) \div 3))
  ELSE Px(fontSize)

\* Math.min in place of Math.max
ClampHeightMin(height, minLineHeight) ==
  IF height <= minLineHeight THEN height ELSE minLineHeight

\* const lineHeight = Math.max(height, minLineHeight)
ClampHeight(height, minLineHeight) == Max(height, minLineHeight)

\* the height given to a line: the em height of the font with node-canvas
\* (emHeightAscent + emHeightDescent), the clamped box height with node-gd
LineHeight(v, text, fontSize) ==
  IF UsesCanvas(v) THEN fontSize
  ELSE ClampHeight(BBoxHeight(text, fontSize), MinLineHeight(fontSize))

\* createBalancedLines(...).map(text => ({ text, width, height }))
MeasureLines(v, ls, sw, fontSize) ==
  [k \in 1..Len(ls) |->
     [text |-> ls[k], width |-> TextWidth(ls[k], sw),
      height |-> LineHeight(v, ls[k], fontSize)]]

\* totalLineHeight assigned, not accumulated: the height of the last line
SumHeightsLast(ms) == IF ms = << >> THEN 0 ELSE ms[Len(ms)].height

\* totalLineHeight, accumulated over the lines
RECURSIVE SumHeights(_)
SumHeights(ms) == IF ms = << >> THEN 0 ELSE ms[1].height + SumHeights(Tail(ms))

\* captionHeight: Math.ceil(...) with node-canvas, (...)|0 with node-gd
CaptionHeight(v, ms, o) ==
  LET sum == SumHeights(ms) + (Len(ms) - 1) * o.lineSpacing + o.captionMarginTop
  IN IF UsesCanvas(v) THEN Ceil(sum) ELSE ToInt(sum)

\* finalImageHeight / canvas.height once the caption height is added
CanvasHeight(v, ms, o, ch) == ch + (2 * o.outerPadding) + CaptionHeight(v, ms, o)

\* the threshold 2 in place of 1.75
RatioAtMost2(w, h) ==
  IF w > 0 THEN h <= 2 * w ELSE IF w < 0 THEN h >= 2 * w ELSE h <= 0

\* canvas.height / canvas.width <= 1.75, on doubles; a zero width gives
\* Infinity, a negative one a negative quotient
RatioAtMost175(w, h) ==
  IF w > 0 THEN 4 * h <= 7 * w ELSE IF w < 0 THEN 4 * h >= 7 * w ELSE h <= 0

\* if (canvas.width < canvas.height && canvas.height / canvas.width <= 1.75)
\*   canvas.width = canvas.height;
SquareAdjust(w, h) == IF w < h /\ RatioAtMost175(w, h) THEN h ELSE w

\* the width of the canvas the routine returns
CanvasWidth(v, o, h) ==
  LET w == o.resizeComicWidth + (2 * o.outerPadding)
  IN IF v = "canvasSquare" THEN SquareAdjust(w, h) ELSE w

\* y advanced by the line spacing only
RECURSIVE LineYsNoHeight(_, _, _)
LineYsNoHeight(ms, y, lineSpacing) ==
  IF ms = << >> THEN << >>
  ELSE <<y>> \o LineYsNoHeight(Tail(ms), y + lineSpacing, lineSpacing)

\* the y of each line: y starts below the image and the top margin and
\* advances by line.height + lineSpacing
RECURSIVE LineYs(_, _, _)
LineYs(ms, y, lineSpacing) ==
  IF ms = << >> THEN << >>
  ELSE <<y>> \o LineYs(Tail(ms), y + ms[1].height + lineSpacing, lineSpacing)

FirstLineY(o, ch) == o.outerPadding + ch + o.captionMarginTop

\* the value the loop over the lines leaves in textY
RECURSIVE TextYAfter(_, _, _)
TextYAfter(ms, y, lineSpacing) ==
  IF ms = << >> THEN y
  ELSE TextYAfter(Tail(ms), y + ms[1].height + lineSpacing, lineSpacing)

\* the y handed to the drawing call: textY with node-canvas, textY|0 with
\* node-gd
DrawnY(v, y) == IF UsesCanvas(v) THEN y ELSE ToInt(y)

\* the rest of _caption / captionImage, from the measuring of the lines to
\* the return; x2 is twice the x coordinate, (width - line.width) / 2.  The
\* first copy keeps the y of the lines in a local (let y); the others
\* assign textY, which no declaration makes a local.
Layout ==
  /\ pc = "balanced"
  /\ LET ch == ComicHeight(opts.resizeComicWidth, image)
         ms == MeasureLines(variant, lines, spaceWidth, opts.fontSize)
         h == CanvasHeight(variant, ms, opts, ch)
         w == CanvasWidth(variant, opts, h)
         ys == LineYs(ms, FirstLineY(opts, ch), opts.lineSpacing)
     IN /\ comicHeight' = ch
        /\ measured' = ms
        /\ canvasHeight' = h
        /\ canvasWidth' = w
        /\ imageRect' = [x2 |-> IF variant = "canvasSquare"
                                THEN w - opts.resizeComicWidth
                                ELSE 2 * opts.outerPadding,
                         y |-> opts.outerPadding,
                         w |-> opts.resizeComicWidth, h |-> ch]
        /\ linePositions' = [k \in 1..Len(ms) |->
                               [text |-> ms[k].text, x2 |-> w - ms[k].width,
                                y |-> ys[k], drawnY |-> DrawnY(variant, ys[k]),
                                width |-> ms[k].width, height |-> ms[k].height]]
        /\ textY' = IF variant = "canvasSquare" THEN textY
                    ELSE [defined |-> TRUE,
                          value |-> TextYAfter(ms, FirstLineY(opts, ch), opts.lineSpacing)]
  /\ status' = "returned"
  /\ pc' = "done"
  /\ UNCHANGED <<inputVars, maxTextWidth, words, linesNeeded, avgLineWidth,
                 balancerVars, hasRegistered, registerCount, calls, fetchVars>>

Next == Enter \/ Measure \/ BalanceStep \/ BalanceFlush \/ Layout

Spec == Init /\ [][Next]_vars

(* ---------------------------- further calls --------------------------- *)

\* the calls of the caption routine one process makes
MaxCalls == 3

\* the inputs of the calls of one process
CallInputs(v) == ExampleInputs(v)

\* the routine has returned and is called again, in the same process: the
\* arguments and the locals are new, the module state is what the calls
\* before left
NextCall ==
  /\ pc = "done"
  /\ calls < MaxCalls
  /\ \E inp \in CallInputs(variant) :
       /\ caption' = inp.caption
       /\ spaceWidth' = inp.spaceWidth
       /\ opts' = inp.opts
       /\ image' = inp.image
  /\ pc' = "entry"
  /\ calls' = calls + 1
  /\ maxTextWidth' = 0
  /\ words' = << >>
  /\ linesNeeded' = 0
  /\ avgLineWidth' = [num |-> 0, den |-> 1]
  /\ wordIdx' = 0
  /\ lines' = << >>
  /\ lineWords' = << >>
  /\ lineWidth' = 0
  /\ totalTextWidth' = 0
  /\ cumAvgLineWidth' = [num |-> 0, den |-> 1, k |-> 1, eps |-> 0]
  /\ lastLine' = FALSE
  /\ softBreak' = FALSE
  /\ comicHeight' = 0
  /\ measured' = << >>
  /\ canvasWidth' = 0
  /\ canvasHeight' = 0
  /\ imageRect' = [x2 |-> 0, y |-> 0, w |-> 0, h |-> 0]
  /\ linePositions' = << >>
  /\ status' = "running"
  /\ UNCHANGED <<variant, textY, hasRegistered, registerCount, fetchVars>>

CallsInit ==
  /\ variant \in Variants
  /\ InitWith(CallInputs(variant))
  /\ FetchIdle("YorkerBot")

CallsNext ==
  Enter \/ Measure \/ BalanceStep \/ BalanceFlush \/ Layout \/ NextCall

CallsSpec == CallsInit /\ [][CallsNext]_vars

(* ------------------------------ fetching ------------------------------ *)

\* const MAX_RETRIES = 10
MAX_RETRIES == 10

\* the attempts the recursion of the legacy fetchRandomComicImage is
\* followed for: it has no limit of its own, and is followed past the
\* MAX_RETRIES of the other version
MaxAttempts == 12

FetchVersions == {"legacy", "YorkerBot"}

\* what the comic endpoint answers: an array with a comic whose caption is
\* quoted, an array without one, an empty array, something that is no
\* array, or no answer
MetaReplies == {"quotable", "noQuotable", "emptyArray", "notArray", "networkError"}

\* what the image URL answers: a content type, or no answer
ImageReplies == {"image/jpeg", "image/png", "image/gif", "text/html", "networkError"}

DecodableTypes == {"image/jpeg", "image/png", "image/gif"}

\* how the metadata request of an attempt ends: "found" (a comic to
\* fetch), "TryAgain" or "Other" (any other error).  The legacy version
\* turns a failed request into TryAgain; YorkerBot awaits it unguarded.
MetaOutcome(version, meta) ==
  IF meta = "quotable" THEN "found"
  ELSE IF meta = "networkError" /\ version = "YorkerBot" THEN "Other"
  ELSE "TryAgain"

\* how the image request of an attempt ends: "ok", "TryAgain" or "Other".
\* The legacy version decodes the three image types and throws TryAgain
\* otherwise; YorkerBot returns { type, data } whatever the type.
ImageOutcome(version, img) ==
  IF version = "legacy"
  THEN IF img \in DecodableTypes THEN "ok" ELSE "TryAgain"
  ELSE IF img = "networkError" THEN "Other" ELSE "ok"

\* the loop test count < MAX_RETRIES
LoopEnters(c) == c < MAX_RETRIES

\* fetchRandomComicImage() is called and sends the first metadata request
FetchStart ==
  /\ fetchPc = "idle"
  /\ count' = 0
  /\ IF fetchVersion = "YorkerBot" /\ ~LoopEnters(0)
     THEN fetchPc' = "resolved" /\ fetchResult' = "undefined" /\ attempts' = 0
     ELSE fetchPc' = "metadata" /\ fetchResult' = fetchResult /\ attempts' = 1
  /\ UNCHANGED <<captionVars, fetchVersion, metaReply, imageReply, attemptError,
                 fetchError>>

\* where a failed attempt leaves the operation.  legacy: .catch returns
\* fetchRandomComicImage() on TryAgain and rethrows anything else.
\* YorkerBot: anything but TryAgain is rethrown; after TryAgain the loop
\* evaluates ++retries, and retries is declared nowhere: a ReferenceError
\* ends the operation.
AfterFailure(kind) ==
  /\ attemptError' = kind
  /\ fetchResult' = fetchResult
  /\ count' = count
  /\ IF kind = "Other"
     THEN fetchPc' = "rejected" /\ fetchError' = "Other" /\ attempts' = attempts
     ELSE IF fetchVersion = "legacy"
          THEN /\ attempts < MaxAttempts
               /\ fetchPc' = "metadata"
               /\ fetchError' = fetchError
               /\ attempts' = attempts + 1
          ELSE /\ fetchPc' = "rejected"
               /\ fetchError' = "ReferenceError"
               /\ attempts' = attempts

\* the comic endpoint answers the request of the running attempt
MetadataArrives ==
  /\ fetchPc = "metadata"
  /\ \E meta \in MetaReplies :
       /\ metaReply' = meta
       /\ imageReply' = "none"
       /\ IF MetaOutcome(fetchVersion, meta) = "found"
          THEN /\ fetchPc' = "image"
               /\ attemptError' = "none"
               /\ UNCHANGED <<count, attempts, fetchError, fetchResult>>
          ELSE AfterFailure(MetaOutcome(fetchVersion, meta))
  /\ UNCHANGED <<captionVars, fetchVersion>>

\* the image URL answers
ImageArrives ==
  /\ fetchPc = "image"
  /\ \E img \in ImageReplies :
       /\ imageReply' = img
       /\ IF ImageOutcome(fetchVersion, img) = "ok"
          THEN /\ fetchPc' = "resolved"
               /\ fetchResult' = img
               /\ UNCHANGED <<count, attempts, attemptError, fetchError>>
          ELSE AfterFailure(ImageOutcome(fetchVersion, img))
  /\ UNCHANGED <<captionVars, fetchVersion, metaReply>>

FetchInit ==
  /\ variant = "bot"
  /\ InitWith({ColumnInput("bot", SixWords, Px(10), Px(150))})
  /\ \E version \in FetchVersions : FetchIdle(version)

FetchNext == FetchStart \/ MetadataArrives \/ ImageArrives

FetchSpec == FetchInit /\ [][FetchNext]_vars

(* ------------------------- claims: the balancer ----------------------- *)

WordTexts == [k \in 1..Len(words) |-> words[k].text]

\* the words of the returned lines, read line after line: each line text
\* re-split on whitespace
WordsOfLines(ls) == Flatten([k \in 1..Len(ls) |-> Split(ls[k])])

RECURSIVE SumWidths(_, _)
SumWidths(ws, sw) ==
  IF ws = << >> THEN 0 ELSE TextWidth(ws[1], sw) + SumWidths(Tail(ws), sw)

\* sum(word widths) + (wordCount - 1) * spaceWidth of a line text
AccountedWidth(line, sw) ==
  SumWidths(Split(line), sw) + (Len(Split(line)) - 1) * sw

AllWordsPositive == \A k \in 1..Len(words) : words[k].width > 0

Balanced == pc \in {"balanced", "done"}

\* C1: for a caption of any widths, space width and text column, the
\* balancer returns at least one line, and the words of its lines, read in
\* order, are exactly the tokenized words: none lost, duplicated or moved.
C1_WordsPreserved ==
  Balanced => /\ Len(lines) >= 1
              /\ WordsOfLines(lines) = WordTexts

\* a caption of three words or more that the balancer broke into lines
C1_Witness ==
  /\ pc = "balanced"
  /\ Len(words) >= 3
  /\ Len(lines) >= 2
  /\ WordsOfLines(lines) = WordTexts

\* C2: for a text column of positive width, every returned line of two
\* words or more has
\* sum(word widths) + (wordCount - 1) * spaceWidth <= maxTextWidth.
C2_MultiWordLinesFit ==
  (Balanced /\ maxTextWidth > 0) =>
    \A k \in 1..Len(lines) :
      Len(Split(lines[k])) >= 2 => AccountedWidth(lines[k], spaceWidth) <= maxTextWidth

\* C3, as stated: pass 2 returns exactly the linesNeeded lines of pass 1
\* (here even for words of positive width only).
C3_LineCountIsEstimate ==
  (pc = "balanced" /\ AllWordsPositive) => Len(lines) = linesNeeded

\* C3, amended: pass 2 returns at least the linesNeeded lines of pass 1, and
\* exactly one line when pass 1 estimated one; it can return more.
C3_LineCountAtLeastEstimate ==
  pc = "balanced" => /\ Len(lines) >= linesNeeded
                     /\ (linesNeeded = 1 => Len(lines) = 1)

\* pass 2 opened a line beyond the estimate, for words of positive width
C3_Witness ==
  /\ pc = "balanced"
  /\ AllWordsPositive
  /\ linesNeeded >= 2
  /\ Len(lines) > linesNeeded

\* C4: for a text column of positive width, a word wider than maxTextWidth
\* ends up on a line that holds no other word.
C4_OverlongWordAlone ==
  (Balanced /\ maxTextWidth > 0) =>
    \A k \in 1..Len(lines) :
      (\E j \in 1..Len(Split(lines[k])) :
          TextWidth(Split(lines[k])[j], spaceWidth) > maxTextWidth)
        => Len(Split(lines[k])) = 1

(* ----------------------- claims: error handling ---------------------- *)

NonZeroWords(line, sw) ==
  {j \in 1..Len(Split(line)) : TextWidth(Split(line)[j], sw) # 0}

\* C5, as stated: a caption without any word is rejected (InvalidInput): no
\* line sequence is returned for it and no layout is computed.
C5_EmptyCaptionRejected ==
  ~HasGlyph(caption) => (pc \notin {"balanced", "done"} /\ status # "returned")

\* C5, amended: a caption without any non-whitespace character is not
\* rejected: split leaves one or two empty words, the balancer returns one
\* line that holds them, and the layout is computed for that line.
C5_EmptyCaptionLaidOut ==
  (~HasGlyph(caption) /\ pc = "done") =>
    /\ Len(words) \in {1, 2}
    /\ \A k \in 1..Len(words) : words[k].text = << >> /\ words[k].width = 0
    /\ Len(lines) = 1
    /\ ~HasGlyph(lines[1])
    /\ Len(linePositions) = 1
    /\ status = "returned"

\* the empty caption went through the whole routine
C5_Witness ==
  /\ caption = << >>
  /\ pc = "done"
  /\ lines = << << >> >>
  /\ status = "returned"

NonPositiveConfig ==
  \/ MaxTextWidthOf(variant, opts, image) <= 0
  \/ opts.resizeComicWidth <= 0
  \/ image.width <= 0

\* C6, as stated: with a non-positive maxTextWidth, resizeComicWidth or
\* image.width the routine fails (InvalidConfiguration) and produces neither
\* lines nor a layout.
C6_BadConfigRejected ==
  NonPositiveConfig => (pc \notin {"balanced", "done"} /\ status # "returned")

\* C6, amended: with a non-positive maxTextWidth, resizeComicWidth or
\* image.width the routine raises nothing and returns lines and a layout;
\* a zero image.width gives a scaled height of 0, a non-positive
\* resizeComicWidth a scaled height <= 0, and a non-positive maxTextWidth
\* lines that hold at most one word of non-zero width each, every one of
\* them closed by the hard rule.
C6_BadConfigLaidOut ==
  (NonPositiveConfig /\ pc = "done") =>
    /\ status = "returned"
    /\ Len(lines) >= 1
    /\ Len(linePositions) = Len(lines)
    /\ (image.width <= 0 => comicHeight = 0)
    /\ (opts.resizeComicWidth <= 0 => comicHeight <= 0)
    /\ (maxTextWidth <= 0 =>
          /\ ~softBreak
          /\ \A k \in 1..Len(lines) :
               Cardinality(NonZeroWords(lines[k], spaceWidth)) <= 1)

\* a caption of several words laid out in a column of no width
C6_Witness ==
  /\ pc = "done"
  /\ maxTextWidth <= 0
  /\ Len(words) >= 2
  /\ AllWordsPositive
  /\ Len(lines) = Len(words)
  /\ status = "returned"

(* --------------------------- claims: layout --------------------------- *)

\* C7: in the layout returned, the image ends at or before the y of the
\* first line, which lies captionMarginTop below it, and each further line
\* starts at or below the bottom of the line before it.
C7_VerticalOrder ==
  pc = "done" =>
    /\ Len(linePositions) >= 1
    /\ imageRect.y = opts.outerPadding
    /\ imageRect.y + imageRect.h <= linePositions[1].y
    /\ linePositions[1].y - (imageRect.y + imageRect.h) = opts.captionMarginTop
    /\ \A k \in 1..(Len(linePositions) - 1) :
         linePositions[k + 1].y >= linePositions[k].y + linePositions[k].height

\* a layout of three lines below a top margin
C7_Witness ==
  /\ pc = "done"
  /\ Len(linePositions) = 3
  /\ opts.captionMarginTop > 0
  /\ linePositions[3].y > linePositions[2].y
  /\ linePositions[2].y > linePositions[1].y

Prefix(ms, n) == SubSeq(ms, 1, n)

\* C8: with the image and the options fixed, the canvas height for the
\* first n + 1 lines is strictly greater than for the first n lines.
C8_HeightGrowsWithLines ==
  pc = "done" =>
    /\ canvasHeight = CanvasHeight(variant, measured, opts, comicHeight)
    /\ \A n \in 1..(Len(measured) - 1) :
         CanvasHeight(variant, Prefix(measured, n + 1), opts, comicHeight)
           > CanvasHeight(variant, Prefix(measured, n), opts, comicHeight)

\* a layout of three lines with no line spacing
C8_Witness ==
  /\ pc = "done"
  /\ Len(measured) = 3
  /\ opts.lineSpacing = 0
  /\ canvasHeight > CanvasHeight(variant, Prefix(measured, 2), opts, comicHeight)

\* the candidate values of minLineHeight
MaxMinLineHeight == 4
MinLineHeights == {Px(k) : k \in 0..MaxMinLineHeight}

\* the lines of the layout, measured as node-gd would with minLineHeight = m
MeasuredWithMin(m) ==
  [k \in 1..Len(measured) |->
     [measured[k] EXCEPT
        !.height = ClampHeight(BBoxHeight(measured[k].text, opts.fontSize), m)]]

HeightWithMin(m) == CanvasHeight(variant, MeasuredWithMin(m), opts, comicHeight)

GdDone == pc = "done" /\ ~UsesCanvas(variant)

\* C9, as stated: for any two values m1 < m2 of minLineHeight the canvas is
\* strictly higher with m2 than with m1.
C9_HeightStrictInMin ==
  GdDone =>
    \A m1, m2 \in MinLineHeights : m1 < m2 => HeightWithMin(m2) > HeightWithMin(m1)

\* C9, amended: raising minLineHeight from m1 to m2 never lowers the canvas,
\* and makes it strictly higher exactly when some line's measured height is
\* below m2; while m2 stays at or below every line's height nothing changes.
C9_HeightMonotoneInMin ==
  GdDone =>
    /\ canvasHeight = HeightWithMin(MinLineHeight(opts.fontSize))
    /\ \A m1, m2 \in MinLineHeights :
         m1 < m2 =>
           /\ HeightWithMin(m2) >= HeightWithMin(m1)
           /\ (HeightWithMin(m2) > HeightWithMin(m1)) <=>
                (\E k \in 1..Len(measured) :
                    BBoxHeight(measured[k].text, opts.fontSize) < m2)

\* a node-gd layout with a line higher than the minimum and a line at it
C9_Witness ==
  /\ GdDone
  /\ Len(measured) >= 2
  /\ \E k \in 1..Len(measured) : measured[k].height > MinLineHeight(opts.fontSize)
  /\ \E k \in 1..Len(measured) : measured[k].height = MinLineHeight(opts.fontSize)

\* canvas.width before the adjustment
WidthBefore == opts.resizeComicWidth + (2 * opts.outerPadding)

\* C10: the square adjustment never narrows the canvas (of a width that is
\* not negative), and it changes the width only when before it
\* width < height and height / width <= 1.75, and then to the height;
\* otherwise the width is left as it was.
C10_SquareAdjustment ==
  (pc = "done" /\ variant = "canvasSquare" /\ WidthBefore >= 0) =>
    /\ canvasWidth >= WidthBefore
    /\ canvasWidth # WidthBefore =>
         /\ WidthBefore < canvasHeight
         /\ WidthBefore > 0
         /\ 4 * canvasHeight <= 7 * WidthBefore
         /\ canvasWidth = canvasHeight
    /\ (WidthBefore >= canvasHeight \/ 4 * canvasHeight > 7 * WidthBefore)
         => canvasWidth = WidthBefore

\* a canvas that was widened to a square
C10_Witness ==
  /\ pc = "done"
  /\ variant = "canvasSquare"
  /\ canvasWidth > WidthBefore
  /\ canvasWidth = canvasHeight

(* ------------------------ claims: worked examples --------------------- *)

\* the layout of the example: resizeComicWidth 600, a 1200 x 800 image,
\* outerPadding 20, captionMarginTop 25, one line 20 pixels high, and a
\* canvas the square adjustment left alone
C11_Example ==
  /\ pc = "done"
  /\ opts.resizeComicWidth = Px(600)
  /\ image = [width |-> Px(1200), height |-> Px(800)]
  /\ opts.outerPadding = Px(20)
  /\ opts.captionMarginTop = Px(25)
  /\ Len(measured) = 1
  /\ measured[1].height = Px(20)
  /\ canvasWidth = WidthBefore

\* C11: in the example the scaled image is 400 high, the canvas is
\* 640 x 485, the image is drawn at x 20, y 20, 600 wide and 400 high, and
\* the line is at y 445.
C11_ExampleLayout ==
  C11_Example =>
    /\ comicHeight = Px(400)
    /\ canvasWidth = Px(640)
    /\ canvasHeight = Px(485)
    /\ imageRect = [x2 |-> 2 * Px(20), y |-> Px(20), w |-> Px(600), h |-> Px(400)]
    /\ linePositions[1].y = Px(445)
    /\ linePositions[1].drawnY = Px(445)

\* the example laid out by the node-gd copy, the line 20 pixels high by
\* the box of its text
C11_Witness ==
  /\ C11_Example
  /\ variant = "gd"
  /\ opts = CAPTION_DEFAULT_OPTS("gd")
  /\ canvasHeight = Px(485)

\* the six words of the example, 40 pixels wide each, with a space of 10
\* pixels and a text column of 150 pixels, after pass 2
C12_Example ==
  /\ Balanced
  /\ Len(words) = 6
  /\ \A k \in 1..Len(words) : words[k].width = Px(40)
  /\ spaceWidth = Px(10)
  /\ maxTextWidth = Px(150)

\* C12: in the example pass 1 estimates 2 lines and pass 2 returns two
\* lines of three words each, both of accounted width 140.
C12_SixWordsInTwoLines ==
  C12_Example =>
    /\ linesNeeded = 2
    /\ calcAvgLineWidth(words, spaceWidth, maxTextWidth).linesNeeded = 2
    /\ lines = <<Join(<<words[1].text, words[2].text, words[3].text>>),
                 Join(<<words[4].text, words[5].text, words[6].text>>)>>
    /\ AccountedWidth(lines[1], spaceWidth) = Px(140)
    /\ AccountedWidth(lines[2], spaceWidth) = Px(140)

\* the example went through both passes
C12_Witness ==
  /\ C12_Example
  /\ pc = "balanced"
  /\ Len(lines) = 2
  /\ caption = SixWords

(* --------------------- claims: the balancing rule --------------------- *)

\* C14: the soft rule closes a line only while fewer than linesNeeded - 1
\* lines have been closed: a line the soft rule alone closed is at most the
\* (linesNeeded - 1)-th, and from the final predicted line on only the
\* hard rule closes a line.
C14_SoftRuleBeforeLastLine ==
  (pc = "balancing" /\ softBreak) => Len(lines) <= linesNeeded - 1

\* the cumulative width up to the middle of the word,
\* totalTextWidth + spaceWidth + wordWidth / 2, exceeds cumAvgLineWidth
CenterExceeds(total, sw, wordWidth, f) ==
  LET twice == (2 * (total + sw)) + wordWidth
  IN IF twice * f.den # 2 * f.num THEN twice * f.den > 2 * f.num ELSE BelowExact(f)

\* C16: on a line that is not the last and that the word still fits, the
\* line is closed before the word exactly when the cumulative width up to
\* the middle of the word exceeds the cumulative average line width.
C16_SoftBreakAtCenter ==
  [][(/\ pc = "balancing"
      /\ wordIdx <= Len(words)
      /\ lineWidth # 0
      /\ ~lastLine
      /\ ~HardBreak(lineWidth, words[wordIdx].width + spaceWidth, maxTextWidth))
     => ((Len(lines') = Len(lines) + 1)
           <=> CenterExceeds(totalTextWidth, spaceWidth, words[wordIdx].width,
                             cumAvgLineWidth))]_vars

\* C18: for words of strictly positive width and a space that is not
\* negative, pass 2 returns at least as many lines as pass 1 estimates on
\* the same words, space and text column.
C18_NeverFewerThanEstimate ==
  (pc = "balanced" /\ AllWordsPositive /\ spaceWidth >= 0) =>
    /\ linesNeeded = calcAvgLineWidth(words, spaceWidth, maxTextWidth).linesNeeded
    /\ Len(lines) >= linesNeeded

\* pass 2 returned the lines pass 1 estimated, several of them, one at
\* least holding two words
C18_Witness ==
  /\ pc = "balanced"
  /\ AllWordsPositive
  /\ linesNeeded >= 2
  /\ Len(lines) = linesNeeded
  /\ Len(words) > Len(lines)

(* ----------------------- claims: the canvas --------------------------- *)

\* sum(per-line heights) + (lineCount - 1) * lineSpacing + marginTop
UnroundedCaptionHeight(ms, o) ==
  SumHeights(ms) + ((Len(ms) - 1) * o.lineSpacing) + o.captionMarginTop

\* C15: in every copy (with a configuration of positive widths) the height
\* added for the text is the unrounded sum rounded up to a whole pixel, so
\* it is never below the sum and the bottom of the last line is at or
\* above canvasHeight - outerPadding.
C15_CaptionHeightRoundedUp ==
  (pc = "done" /\ ~NonPositiveConfig) =>
    /\ canvasHeight - (comicHeight + (2 * opts.outerPadding))
         = Ceil(UnroundedCaptionHeight(measured, opts))
    /\ canvasHeight - (comicHeight + (2 * opts.outerPadding))
         >= UnroundedCaptionHeight(measured, opts)
    /\ linePositions[Len(linePositions)].y + linePositions[Len(linePositions)].height
         <= canvasHeight - opts.outerPadding

\* C19: in every copy, with margins and padding that are not negative (and
\* a positive resizeComicWidth), for any image width the text column
\* handed to the balancer is at most as wide as the canvas, so
\* a line within the column starts at x >= 0 and ends within the canvas.
C19_TextColumnWithinCanvas ==
  (/\ pc = "done"
   /\ opts.captionMarginSides >= 0
   /\ opts.outerPadding >= 0
   /\ opts.resizeComicWidth > 0) =>
    /\ maxTextWidth <= canvasWidth
    /\ \A k \in 1..Len(linePositions) :
         linePositions[k].width <= maxTextWidth =>
           /\ linePositions[k].x2 >= 0
           /\ linePositions[k].x2 + (2 * linePositions[k].width) <= 2 * canvasWidth

(* ------------------------ claims: the process ------------------------- *)

\* C13: no state is shared between invocations: an invocation writes no
\* variable that outlives it, so every invocation starts with the module
\* state the load of the module left, whatever ran before.
C13_NoSharedState ==
  pc = "entry" => textY = Undefined

\* C17: in a process that calls caption() any number of times, registerFont
\* is called exactly once, on the first call and before any text is
\* measured; hasRegistered is then true and stays true.
C17_FontRegisteredOnce ==
  UsesCanvas(variant) =>
    /\ registerCount <= 1
    /\ hasRegistered <=> (registerCount = 1)
    /\ (calls > 1 \/ pc # "entry") => hasRegistered
    /\ (calls = 1 /\ pc = "entry") => ~hasRegistered
    /\ words # << >> => hasRegistered

\* a later call of caption() that found the font registered
C17_Witness ==
  /\ UsesCanvas(variant)
  /\ calls >= 2
  /\ pc = "done"
  /\ hasRegistered
  /\ registerCount = 1

(* ----------------------- claims: fetching ----------------------------- *)

\* C20: an attempt that fails with TryAgain is not surfaced to the caller
\* but followed by a further attempt (in YorkerBot's version while fewer
\* than MAX_RETRIES attempts were made); any other error is rethrown at
\* once; the operation resolves with the result of the first attempt that
\* succeeds.
C20_TryAgainRetried ==
  /\ fetchPc = "rejected" => (attemptError = "Other" /\ fetchError = "Other")
  /\ (attemptError = "TryAgain"
        /\ (fetchVersion = "YorkerBot" => attempts < MAX_RETRIES))
       => (fetchPc = "metadata" /\ attempts >= 2)
  /\ fetchPc = "resolved" => (attemptError = "none" /\ fetchResult = imageReply)

====
